---- MODULE Spec2Model ----
(***************************************************************************)
(* The with_ragged layout adapter of thinc (thinc/layers/with_ragged.py):  *)
(* a wrapper that lets a layer written for Ragged batches accept and       *)
(* return Ragged, Padded, list-of-arrays and (data, lengths) tuple         *)
(* batches, converting on the way in and back (gradients included) on the  *)
(* way out.                                                                *)
(*                                                                         *)
(* A 2-d array is modelled by the sequence of its rows, a row by one       *)
(* integer (the feature dimension plays no part in the conversions).  A   *)
(* Python value is a record whose pytype field is its runtime type.        *)
(***************************************************************************)
EXTENDS Integers, Sequences, FiniteSets

VARIABLES closures, last

vars == <<closures, last>>

\* Bounds of the model.
MaxBatch == 2
MaxRows == 3

\* A row is 0, the value the padding is filled with, or a non-zero value.
Values == {0, 1}

(***************************************************************************)
(* Python values                                                           *)
(***************************************************************************)
None == [pytype |-> "NoneType"]

Ragged(data, lengths) == [pytype |-> "Ragged", data |-> data, lengths |-> lengths]

Padded(data, size_at_t, indices) ==
    [pytype |-> "Padded", data |-> data, size_at_t |-> size_at_t, indices |-> indices]

PyTuple(elems) == [pytype |-> "tuple", elems |-> elems]

PyList(elems) == [pytype |-> "list", elems |-> elems]

isinstance(x, t) == x.pytype = t

(***************************************************************************)
(* Array backend (layer.ops).  flatten concatenates the items of a list and *)
(* unflatten cuts a flat array back by lengths.  A Padded stores its        *)
(* entries sorted by decreasing length, zero-filled to the longest;         *)
(* size_at_t[t] counts the entries still active at step t, and indices[b]   *)
(* is the place in the batch of the b-th stored entry, the permutation     *)
(* padded2list restores.                                                    *)
(***************************************************************************)
RECURSIVE Sum(_)
Sum(s) == IF s = <<>> THEN 0 ELSE Head(s) + Sum(Tail(s))

Max(S) == IF S = {} THEN 0 ELSE CHOOSE m \in S : \A k \in S : k <= m

Min2(a, b) == IF a <= b THEN a ELSE b

\* X[:n] and X[n:] of Python: slices clip to what is there.
Take(X, n) == SubSeq(X, 1, Min2(n, Len(X)))

Drop(X, n) == SubSeq(X, Min2(n, Len(X)) + 1, Len(X))

\* [len(x) for x in Xs], as an int array
ItemLengths(Xs) == [i \in 1..Len(Xs) |-> Len(Xs[i])]

RECURSIVE flatten(_)
flatten(Xs) == IF Xs = <<>> THEN <<>> ELSE Head(Xs) \o flatten(Tail(Xs))

RECURSIVE unflatten(_, _)
unflatten(X, lengths) ==
    IF lengths = <<>> THEN <<>>
    ELSE <<Take(X, Head(lengths))>> \o unflatten(Drop(X, Head(lengths)), Tail(lengths))

\* The place of item i once the batch is sorted by decreasing length (stable).
SortedPlace(Xs, i) ==
    1 + Cardinality({j \in 1..Len(Xs) :
                        \/ Len(Xs[j]) > Len(Xs[i])
                        \/ Len(Xs[j]) = Len(Xs[i]) /\ j < i})

PadTo(x, n) == [t \in 1..n |-> IF t <= Len(x) THEN x[t] ELSE 0]

list2padded(Xs) ==
    LET nB == Len(Xs)
        nS == Max({Len(Xs[i]) : i \in 1..nB})
        indices == [b \in 1..nB |-> CHOOSE i \in 1..nB : SortedPlace(Xs, i) = b]
    IN  Padded([b \in 1..nB |-> PadTo(Xs[indices[b]], nS)],
               [t \in 1..nS |-> Cardinality({i \in 1..nB : Len(Xs[i]) >= t})],
               indices)

\* The length of the b-th stored entry: the steps at which it is still active.
PaddedLength(Xp, b) == Cardinality({t \in DOMAIN Xp.size_at_t : Xp.size_at_t[t] >= b})

padded2list(Xp) ==
    [i \in 1..Len(Xp.data) |->
        LET b == CHOOSE c \in 1..Len(Xp.data) : Xp.indices[c] = i
        IN  SubSeq(Xp.data[b], 1, PaddedLength(Xp, b))]

(***************************************************************************)
(* The wrapped layer, a Model[Ragged, Ragged]: layer(Xr, is_train) returns *)
(* Yr and a callback get_dXr that holds what the layer captured (ctx).     *)
(* None of the three layers behaves differently when training.             *)
(*   identity  returns its input, and its gradient unchanged;              *)
(*   flip      works row by row and keeps the lengths;                     *)
(*   first     keeps the first row of every item, so its output lengths     *)
(*             differ from its input lengths.                              *)
(***************************************************************************)
Layers == {"identity", "flip", "first"}

NoCtx == [data |-> <<>>, lengths |-> <<>>]

At(s, i) == IF i \in DOMAIN s THEN s[i] ELSE 0

FirstLengths(lengths) == [i \in DOMAIN lengths |-> Min2(1, lengths[i])]

LayerForward(layer, Xr, is_train) ==
    CASE layer = "identity" -> [Y |-> Xr, ctx |-> NoCtx]
      [] layer = "flip" ->
            [Y |-> Ragged([i \in DOMAIN Xr.data |-> 1 - Xr.data[i]], Xr.lengths),
             ctx |-> [data |-> Xr.data, lengths |-> <<>>]]
      [] layer = "first" ->
            LET Xs == unflatten(Xr.data, Xr.lengths)
            IN  [Y |-> Ragged(flatten([i \in DOMAIN Xs |-> Take(Xs[i], 1)]),
                              FirstLengths(Xr.lengths)),
                 ctx |-> [data |-> <<>>, lengths |-> Xr.lengths]]

LayerBackward(layer, ctx, dYr) ==
    CASE layer = "identity" -> dYr
      [] layer = "flip" ->
            Ragged([i \in DOMAIN dYr.data |-> dYr.data[i] * At(ctx.data, i)], dYr.lengths)
      [] layer = "first" ->
            LET dYs == unflatten(dYr.data, FirstLengths(ctx.lengths))
            IN  Ragged(flatten([i \in DOMAIN dYs |-> PadTo(dYs[i], ctx.lengths[i])]),
                       ctx.lengths)

(***************************************************************************)
(* The adapter: with_ragged(layer)                                         *)
(***************************************************************************)
\* A backprop callback the adapter returned: the function it is (kind), the
\* lengths it closed over, and the layer's get_dXr it closed over.
Backprop(kind, lengths, layer, ctx) ==
    [kind |-> kind, lengths |-> lengths, layer |-> layer, ctx |-> ctx]

NoBackprop == Backprop("none", <<>>, "identity", NoCtx)

_is_ragged_data(seq) == isinstance(seq, "tuple") /\ Len(seq.elems) = 2

_tuple_forward(layer, X, is_train) ==
    LET Xr == Ragged(X.elems[1], X.elems[2])
        r == LayerForward(layer, Xr, is_train)
    IN  [Y |-> PyTuple(<<r.Y.data, r.Y.lengths>>),
         backprop |-> Backprop("tuple", <<>>, layer, r.ctx),
         calls |-> <<Xr>>]

\* _padded_forward handing back the list form, the output never re-padded.
padded_forward_unpadded(layer, Xp, is_train) ==
    LET Xs == padded2list(Xp)
        lengths == ItemLengths(Xs)
        Xr == Ragged(flatten(Xs), lengths)
        r == LayerForward(layer, Xr, is_train)
    IN  [Y |-> PyList(unflatten(r.Y.data, r.Y.lengths)),
         backprop |-> Backprop("padded", lengths, layer, r.ctx),
         calls |-> <<Xr>>]

\* _padded_forward taking the lengths in the Padded's storage order.
padded_forward_stored_lengths(layer, Xp, is_train) ==
    LET Xs == padded2list(Xp)
        lengths == [b \in 1..Len(Xp.data) |-> PaddedLength(Xp, b)]
        Xr == Ragged(flatten(Xs), lengths)
        r == LayerForward(layer, Xr, is_train)
    IN  [Y |-> list2padded(unflatten(r.Y.data, r.Y.lengths)),
         backprop |-> Backprop("padded", lengths, layer, r.ctx),
         calls |-> <<Xr>>]

_padded_forward(layer, Xp, is_train) ==
    LET Xs == padded2list(Xp)
        lengths == ItemLengths(Xs)
        Xr == Ragged(flatten(Xs), lengths)
        r == LayerForward(layer, Xr, is_train)
    IN  [Y |-> list2padded(unflatten(r.Y.data, r.Y.lengths)),
         backprop |-> Backprop("padded", lengths, layer, r.ctx),
         calls |-> <<Xr>>]

_list_forward(layer, Xs, is_train) ==
    LET lengths == ItemLengths(Xs.elems)
        Xr == Ragged(flatten(Xs.elems), lengths)
        r == LayerForward(layer, Xr, is_train)
    IN  [Y |-> PyList(unflatten(r.Y.data, r.Y.lengths)),
         backprop |-> Backprop("list", lengths, layer, r.ctx),
         calls |-> <<Xr>>]

\* The Ragged branch of forward: the layer's own output and callback.
_ragged_forward(layer, Xseq, is_train) ==
    LET r == LayerForward(layer, Xseq, is_train)
    IN  [Y |-> r.Y,
         backprop |-> Backprop("ragged", <<>>, layer, r.ctx),
         calls |-> <<Xseq>>]

forward(layer, Xseq, is_train) ==
    IF isinstance(Xseq, "Ragged") THEN _ragged_forward(layer, Xseq, is_train)
    ELSE IF isinstance(Xseq, "Padded") THEN _padded_forward(layer, Xseq, is_train)
    ELSE IF _is_ragged_data(Xseq) THEN _tuple_forward(layer, Xseq, is_train)
    ELSE _list_forward(layer, Xseq, is_train)

\* The callbacks, applied to a gradient of the output.
_tuple_backprop(bp, dY) ==
    LET dYr == Ragged(dY.elems[1], dY.elems[2])
        dXr == LayerBackward(bp.layer, bp.ctx, dYr)
    IN  [dX |-> PyTuple(<<dXr.data, dXr.lengths>>), calls |-> <<dYr>>]

\* backprop of _padded_forward computing the lengths from dYp itself.
padded_backprop_own_lengths(bp, dYp) ==
    LET lengths == ItemLengths(padded2list(dYp))
        dYr == Ragged(flatten(padded2list(dYp)), lengths)
        dXr == LayerBackward(bp.layer, bp.ctx, dYr)
    IN  [dX |-> list2padded(unflatten(dXr.data, lengths)), calls |-> <<dYr>>]

_padded_backprop(bp, dYp) ==
    LET dYr == Ragged(flatten(padded2list(dYp)), bp.lengths)
        dXr == LayerBackward(bp.layer, bp.ctx, dYr)
    IN  [dX |-> list2padded(unflatten(dXr.data, bp.lengths)), calls |-> <<dYr>>]

\* backprop of _list_forward reading the lengths from a place every call
\* shares (the lengths last put on a Ragged for the layer), not its closure.
list_backprop_shared(bp, dYs) ==
    LET lengths == last.calls[1].lengths
        dYr == Ragged(flatten(dYs.elems), lengths)
        dXr == LayerBackward(bp.layer, bp.ctx, dYr)
    IN  [dX |-> PyList(unflatten(dXr.data, lengths)), calls |-> <<dYr>>]

\* backprop of _list_forward returning the flat gradient, never unflattened.
list_backprop_flat(bp, dYs) ==
    LET dYr == Ragged(flatten(dYs.elems), bp.lengths)
        dXr == LayerBackward(bp.layer, bp.ctx, dYr)
    IN  [dX |-> PyList(<<dXr.data>>), calls |-> <<dYr>>]

_list_backprop(bp, dYs) ==
    LET dYr == Ragged(flatten(dYs.elems), bp.lengths)
        dXr == LayerBackward(bp.layer, bp.ctx, dYr)
    IN  [dX |-> PyList(unflatten(dXr.data, bp.lengths)), calls |-> <<dYr>>]

_ragged_backprop(bp, dYr) ==
    [dX |-> LayerBackward(bp.layer, bp.ctx, dYr), calls |-> <<dYr>>]

call_backprop(bp, dY) ==
    CASE bp.kind = "ragged" -> _ragged_backprop(bp, dY)
      [] bp.kind = "padded" -> _padded_backprop(bp, dY)
      [] bp.kind = "tuple" -> _tuple_backprop(bp, dY)
      [] bp.kind = "list" -> _list_backprop(bp, dY)

\* _get_ragged without the branch for a (data, lengths) pair.
get_ragged_no_pair(seq) ==
    IF isinstance(seq, "Ragged") THEN seq
    ELSE IF isinstance(seq, "Padded") THEN
        LET lists == padded2list(seq)
            lengths == ItemLengths(lists)
        IN  Ragged(flatten(lists), lengths)
    ELSE LET lengths == ItemLengths(seq.elems)
         IN  Ragged(flatten(seq.elems), lengths)

_get_ragged(seq) ==
    IF isinstance(seq, "Ragged") THEN seq
    ELSE IF isinstance(seq, "Padded") THEN
        LET lists == padded2list(seq)
            lengths == ItemLengths(lists)
        IN  Ragged(flatten(lists), lengths)
    ELSE IF _is_ragged_data(seq) THEN Ragged(seq.elems[1], seq.elems[2])
    ELSE LET lengths == ItemLengths(seq.elems)
         IN  Ragged(flatten(seq.elems), lengths)

\* init: what it hands to layer.initialize, and what it returns.
init(X, Y) ==
    [initArgs |-> <<[X |-> IF X # None THEN _get_ragged(X) ELSE None,
                     Y |-> IF Y # None THEN _get_ragged(Y) ELSE None]>>,
     ret |-> "model"]

(***************************************************************************)
(* The calls made on one adapter.  closures holds, for each reference the   *)
(* caller keeps (a slot), the forward call that produced it: its            *)
(* arguments, its output Y and the callback it returned.  last is the most  *)
(* recent call: its arguments, what it returned, and every Ragged it handed *)
(* to the wrapped layer (calls) or to layer.initialize (initArgs).          *)
(***************************************************************************)
Slots == {"a", "b"}

NoCall == [X |-> None, layer |-> "identity", Y |-> None, backprop |-> NoBackprop]

Idle ==
    [op |-> "none", slot |-> "a", is_train |-> FALSE, X |-> None, Y |-> None,
     dY |-> None, dX |-> None, calls |-> <<>>, initArgs |-> <<>>, ret |-> "none"]

Forward(slot, layer, Xseq, is_train) ==
    LET r == forward(layer, Xseq, is_train)
    IN  /\ closures' = [closures EXCEPT ![slot] =
                            [X |-> Xseq, layer |-> layer, Y |-> r.Y, backprop |-> r.backprop]]
        /\ last' = [Idle EXCEPT !.op = "forward", !.slot = slot, !.is_train = is_train,
                                !.X = Xseq, !.Y = r.Y, !.calls = r.calls, !.ret = "pair"]

Backward(slot, dY) ==
    /\ closures[slot].backprop.kind # "none"
    /\ LET r == call_backprop(closures[slot].backprop, dY)
       IN  last' = [Idle EXCEPT !.op = "backward", !.slot = slot, !.dY = dY,
                                !.dX = r.dX, !.calls = r.calls, !.ret = "grad"]
    /\ UNCHANGED closures

Initialize(X, Y) ==
    /\ LET r == init(X, Y)
       IN  last' = [Idle EXCEPT !.op = "init", !.X = X, !.Y = Y,
                                !.initArgs = r.initArgs, !.ret = r.ret]
    /\ UNCHANGED closures

(***************************************************************************)
(* Inputs                                                                  *)
(***************************************************************************)
Arrays == UNION {[1..n -> Values] : n \in 0..MaxRows}

ArrayLists ==
    {Xs \in UNION {[1..n -> Arrays] : n \in 0..MaxBatch} : Sum(ItemLengths(Xs)) <= MaxRows}

LengthVectors ==
    {l \in UNION {[1..n -> 0..MaxRows] : n \in 0..MaxBatch} : Sum(l) <= MaxRows}

\* Every kind of input, well formed or not: a Ragged or a pair whose lengths
\* need not sum to the rows of its data, and tuples of arrays that are not
\* pairs.
Inputs ==
    {PyList(Xs) : Xs \in ArrayLists}
        \cup {list2padded(Xs) : Xs \in ArrayLists}
        \cup {Ragged(d, l) : d \in Arrays, l \in LengthVectors}
        \cup {PyTuple(<<d, l>>) : d \in Arrays, l \in LengthVectors}
        \cup {PyTuple(Xs) : Xs \in {Zs \in ArrayLists : Len(Zs) \notin {0, 2}}}

ArraysOfLen(n) == [1..n -> Values]

\* The gradients shaped like an output Y: its kind, its item lengths.  A pair
\* carries lengths of its own: those of Y, or all its rows (if any) as one
\* item.
GradsLike(Y) ==
    CASE isinstance(Y, "Ragged") ->
            {Ragged(d, Y.lengths) : d \in ArraysOfLen(Len(Y.data))}
      [] isinstance(Y, "Padded") ->
            {list2padded(unflatten(d, ItemLengths(padded2list(Y)))) :
                d \in ArraysOfLen(Sum(ItemLengths(padded2list(Y))))}
      [] isinstance(Y, "tuple") ->
            {PyTuple(<<d, l>>) : d \in ArraysOfLen(Len(Y.elems[1])),
                                 l \in {Y.elems[2]} \cup
                                       {<<n>> : n \in {Len(Y.elems[1])} \ {0}}}
      [] isinstance(Y, "list") ->
            {PyList(unflatten(d, ItemLengths(Y.elems))) :
                d \in ArraysOfLen(Sum(ItemLengths(Y.elems)))}
      [] OTHER -> {}

\* initialize(X, Y): a sample input, a sample output for it, both or neither.
InitPairs ==
    {<<X, None>> : X \in Inputs \cup {None}}
        \cup {<<None, Y>> : Y \in Inputs}
        \cup {<<X, forward(layer, X, FALSE).Y>> : X \in Inputs, layer \in Layers}

(***************************************************************************)
(* One pass: forward, then the callback it returned on a gradient of its    *)
(* output; or initialize.                                                   *)
(***************************************************************************)
Init ==
    /\ closures = [s \in Slots |-> NoCall]
    /\ last = Idle

CallForward ==
    /\ last.op = "none"
    /\ \E layer \in Layers, Xseq \in Inputs, is_train \in BOOLEAN :
          Forward("a", layer, Xseq, is_train)

CallBackprop ==
    /\ last.op = "forward"
    /\ \E dY \in GradsLike(closures["a"].Y) : Backward("a", dY)

CallInit ==
    /\ last.op = "none"
    /\ \E p \in InitPairs : Initialize(p[1], p[2])

Next == CallForward \/ CallBackprop \/ CallInit

Spec == Init /\ [][Next]_vars

(***************************************************************************)
(* Many calls on one adapter: forward calls on batches of different kinds   *)
(* and lengths, each callback kept in a slot, and the callbacks called in   *)
(* any order, any number of times.                                          *)
(***************************************************************************)
CallRows == 2

\* Batches of non-empty items of ones, as a list and as a Padded: between
\* calls it is the lengths that differ.
CallInputs ==
    LET Xss == {[i \in DOMAIN l |-> [t \in 1..l[i] |-> 1]] :
                   l \in {k \in LengthVectors :
                             Sum(k) <= CallRows /\ \A i \in DOMAIN k : k[i] > 0}}
    IN  {PyList(Xs) : Xs \in Xss} \cup {list2padded(Xs) : Xs \in Xss}

AnyForward ==
    \E slot \in Slots, Xseq \in CallInputs : Forward(slot, "identity", Xseq, TRUE)

AnyBackprop ==
    \E slot \in Slots : \E dY \in GradsLike(closures[slot].Y) : Backward(slot, dY)

NextCalls == AnyForward \/ AnyBackprop

SpecCalls == Init /\ [][NextCalls]_vars

(***************************************************************************)
(* Properties                                                              *)
(***************************************************************************)
\* The representation kind of a value, by its runtime type alone.
Kind(x) ==
    CASE x.pytype = "Ragged" -> "Ragged"
      [] x.pytype = "Padded" -> "Padded"
      [] x.pytype = "tuple" /\ Len(x.elems) = 2 -> "FlatTuple"
      [] x.pytype = "list" -> "ListOfArrays"
      [] OTHER -> "none"

FourKinds == {"Ragged", "Padded", "FlatTuple", "ListOfArrays"}

WellFormed(r) == Sum(r.lengths) = Len(r.data)

\* The item lengths of a batch, in the order the caller sees its items.
ItemLengthsOf(x) ==
    CASE Kind(x) = "Ragged" -> x.lengths
      [] Kind(x) = "Padded" -> ItemLengths(padded2list(x))
      [] Kind(x) = "FlatTuple" -> x.elems[2]
      [] OTHER -> ItemLengths(x.elems)

\* The forward call that produced the callback the last call used.
Paired == closures[last.slot]

\* A Padded whose storage order is not the batch order.
Reordered(Xp) == \E b \in DOMAIN Xp.indices : Xp.indices[b] # b

\* C1: forward returns an output of the same representation kind as its
\* input, for an input of any of the four kinds and any wrapped layer.
RepresentationSymmetry ==
    (last.op = "forward" /\ Kind(last.X) \in FourKinds)
        => Kind(last.Y) = Kind(last.X)

RepresentationSymmetryWitness ==
    /\ last.op = "forward"
    /\ Kind(last.X) = "Padded"
    /\ Reordered(last.X)
    /\ Paired.layer = "first"
    /\ Kind(last.Y) = "Padded"

GradientRoundTrip ==
    (last.op = "backward" /\ Paired.layer = "identity" /\ Kind(Paired.X) \in FourKinds)
        => /\ last.dX = last.dY
           /\ Kind(last.dX) = Kind(Paired.X)

GradientRoundTripWitness ==
    /\ last.op = "backward"
    /\ Paired.layer = "identity"
    /\ Kind(Paired.X) = "Padded"
    /\ Reordered(Paired.X)
    /\ padded2list(last.dX) = <<<<1>>, <<0, 1>>>>

\* The batches a Padded can have been made of: its stored entries, unpadded,
\* in every order that list2padded stores as this Padded.
BatchesOf(Xp) ==
    LET stored == {SubSeq(Xp.data[b], 1, PaddedLength(Xp, b)) : b \in DOMAIN Xp.data}
    IN  {Xs \in [DOMAIN Xp.data -> stored] : list2padded(Xs) = Xp}

IntegrityViolationDetected ==
    (/\ last.op = "forward"
     /\ Kind(last.X) \in {"Ragged", "FlatTuple"}
     /\ ~WellFormed(_get_ragged(last.X)))
        => (last.calls = <<>> /\ last.ret # "pair")

\* C6: forward treats its input as a (data, lengths) pair exactly when it is
\* a tuple of two elements, and an input of none of the four kinds is
\* rejected: the wrapped layer is not called and nothing is returned.
ExactClassification ==
    last.op = "forward" =>
        /\ Paired.backprop.kind = "tuple" <=> Kind(last.X) = "FlatTuple"
        /\ Kind(last.X) = "ListOfArrays" => Paired.backprop.kind = "list"
        /\ Kind(last.X) \notin FourKinds => (last.calls = <<>> /\ last.ret # "pair")

\* What forward hands to the wrapped layer for the input x.
ForwardRagged(x) == forward("identity", x, FALSE).calls[1]

\* C7: initialize calls layer.initialize once, with each of X and Y turned
\* into the Ragged forward would hand to the layer for it, an absent one
\* passed as absent, and returns the adapter.
InitializationContract ==
    last.op = "init" =>
        /\ Len(last.initArgs) = 1
        /\ last.ret = "model"
        /\ last.initArgs[1].X = IF last.X = None THEN None ELSE ForwardRagged(last.X)
        /\ last.initArgs[1].Y = IF last.Y = None THEN None ELSE ForwardRagged(last.Y)
        /\ last.initArgs[1].X.pytype \in {"Ragged", "NoneType"}
        /\ last.initArgs[1].Y.pytype \in {"Ragged", "NoneType"}

InitializationContractWitness ==
    /\ last.op = "init"
    /\ Kind(last.X) = "Padded"
    /\ Reordered(last.X)
    /\ Kind(last.Y) = "Padded"
    /\ last.initArgs[1].Y.lengths = <<0, 1>>

\* C10: for a Padded or list input and a gradient shaped like the output,
\* every Ragged handed to the wrapped layer, in forward and in the callback,
\* has lengths that sum to the rows of its data, whatever the layer.
RaggedWellFormedAtLayer ==
    (last.op \in {"forward", "backward"} /\ Kind(Paired.X) \in {"Padded", "ListOfArrays"})
        => \A i \in DOMAIN last.calls : WellFormed(last.calls[i])

\* What the callback held in a slot does with a gradient, as things stand.
Computes(slot, dY) == call_backprop(closures[slot].backprop, dY)

\* C8: after any sequence of forward and callback calls, every callback still
\* held turns a gradient into a Ragged with the lengths of the batch its own
\* forward call was given, and (around the identity layer) returns that
\* gradient unchanged: nothing a later call did has changed what it
\* computes, and the call just made used the lengths of its own forward.
NoSharedState ==
    /\ last.op = "backward" => last.calls[1].lengths = ItemLengthsOf(Paired.X)
    /\ \A slot \in Slots :
          closures[slot].backprop.kind # "none" =>
              \A dY \in GradsLike(closures[slot].Y) :
                  /\ Computes(slot, dY).calls[1].lengths = ItemLengthsOf(closures[slot].X)
                  /\ Computes(slot, dY).dX = dY

NoSharedStateWitness ==
    /\ last.op = "backward"
    /\ last.slot = "a"
    /\ Kind(closures["a"].X) = "ListOfArrays"
    /\ Kind(closures["b"].X) = "Padded"
    /\ ItemLengthsOf(closures["a"].X) = <<2>>
    /\ ItemLengthsOf(closures["b"].X) = <<1, 1>>
    /\ last.dX = PyList(<<<<0, 1>>>>)

====
